---- MODULE Spec2Model ----
(***************************************************************************)
(* A state-machine model of toolbox.py, the Toolbox package manager: the   *)
(* install / uninstall lifecycle, the cached catalog (packages.json), the  *)
(* installation record (record.json) and the interactive command loop.     *)
(***************************************************************************)
EXTENDS Integers, Sequences, FiniteSets, TLC

\* Number of commands typed over the life of the model (all sessions).
MaxCmds == 2
\* Depth of nested install_package('*') calls the interpreter allows.
RecursionLimit == 2

(***************************************************************************)
(* Strings                                                                 *)
(***************************************************************************)
\* platform.system() values of the two branches of get_installation_path.
Platforms == {"Windows", "Darwin"}

\* Package names a user types after install / uninstall.
Names == {"Foo", "foo", "bar", "baz", "toolbox", "*", "nope"}

\* Answers typed at a confirmation prompt.
Answers == {"y", "Y", " y", "n", ""}

\* str.lower() on the strings that occur here.
lower(s) ==
    IF s = "Foo" THEN "foo"
    ELSE IF s = "Y" THEN "y"
    ELSE IF s = "AB" THEN "ab"
    ELSE s

\* str.strip() on the strings that occur here.
strip(s) == IF s = " y" THEN "y" ELSE s

\* The urls of the model.
DefaultURL == "https://raw.githubusercontent.com/ravendevteam/toolbox/main/packages.json"
MirrorURL == "https://mirror.example/packages.json"

(***************************************************************************)
(* Maps (JSON objects) as sets of <<key, value>> pairs                     *)
(***************************************************************************)
HasKey(m, k) == \E p \in m : p[1] = k
Get(m, k) == (CHOOSE p \in m : p[1] = k)[2]

(***************************************************************************)
(* Catalog documents                                                       *)
(***************************************************************************)
NoPackage ==
    [name |-> "", version |-> "", os |-> {}, url |-> {}, sha256 |-> {}, shortcut |-> FALSE]

\* Supported everywhere, asks for a shortcut.
pkgFoo ==
    [name |-> "Foo", version |-> "1", os |-> {"Windows", "Darwin"},
     url |-> {<<"Windows", "https://dl/foo.zip">>, <<"Darwin", "https://dl/foo.zip">>},
     sha256 |-> {<<"Windows", "ab">>, <<"Darwin", "ab">>}, shortcut |-> TRUE]

\* Supported on Windows only.
pkgBar ==
    [name |-> "bar", version |-> "1", os |-> {"Windows"},
     url |-> {<<"Windows", "https://dl/bar.exe">>},
     sha256 |-> {<<"Windows", "cd">>}, shortcut |-> FALSE]

\* Lists Darwin in os but has no url and no digest for it.
pkgBaz ==
    [name |-> "baz", version |-> "1", os |-> {"Windows", "Darwin"},
     url |-> {<<"Windows", "https://dl/baz.zip">>},
     sha256 |-> {<<"Windows", "ab">>}, shortcut |-> FALSE]

\* A descriptor whose name is the wildcard token.
pkgStar ==
    [name |-> "*", version |-> "1", os |-> {"Windows", "Darwin"},
     url |-> {<<"Windows", "https://dl/star.zip">>, <<"Darwin", "https://dl/star.zip">>},
     sha256 |-> {<<"Windows", "ab">>, <<"Darwin", "ab">>}, shortcut |-> FALSE]

\* Version 2 of Foo, its digest written in upper case.
pkgFoo2 ==
    [name |-> "Foo", version |-> "2", os |-> {"Windows", "Darwin"},
     url |-> {<<"Windows", "https://dl/foo2.zip">>, <<"Darwin", "https://dl/foo2.zip">>},
     sha256 |-> {<<"Windows", "AB">>, <<"Darwin", "AB">>}, shortcut |-> FALSE]

\* The parsed content of a catalog file, by the id of the document.
CatDoc(id) ==
    IF id = "A"
    THEN [updateurl |-> {<<"updateurl", MirrorURL>>}, packages |-> <<pkgFoo, pkgBar, pkgBaz>>]
    ELSE [updateurl |-> {}, packages |-> <<pkgBar, pkgStar, pkgFoo2>>]

\* What a catalog url may serve: a document, or bytes that are no JSON.
RemoteDocs == {"A", "S", "corrupt"}

\* Contents an artifact url may serve, and the file a broken transfer leaves.
Contents == {"c1", "c2"}

\* hashlib.sha256(...).hexdigest(): lower-case hex of the content's digest.
hexdigest(c) == IF c = "c1" THEN "ab" ELSE IF c = "c2" THEN "cd" ELSE "ef"

(***************************************************************************)
(* State                                                                   *)
(***************************************************************************)
VARIABLES
    platform_name,    \* platform.system()
    caseInsensitive,  \* whether the file system folds the case of names
    dirs,             \* directories that exist under .../ravendevteam/
    art,              \* per directory: the downloaded artifact in it
    catFile,          \* .../ravendevteam/toolbox/packages.json
    recFile,          \* .../ravendevteam/record.json
    pc,               \* where the process is
    cmd,              \* the command line being run
    package_name,     \* argument of the running install_package / uninstall_package
    package,          \* the descriptor install_package resolved
    stack,            \* the for loops of the active install_package('*') calls
    pending,          \* the record dict handed to write_record
    out,              \* messages printed by the running command
    err,              \* the message handle_error was called with
    netLog,           \* urls fetched by the running install / update / list call
    answer,           \* what was typed at the confirmation prompt
    op0,              \* files and record when the running call started
    touched,          \* directories created / written by the running command
    started,          \* names the outermost wildcard loop has called install for
    calls,            \* number of install_package calls made by wildcard loops
    completed,        \* names whose install wrote its record entry in this command
    listing,          \* names list_packages printed
    ncmds             \* commands typed so far

env == <<platform_name, caseInsensitive>>
fs == <<dirs, art, catFile, recFile>>
ctl == <<cmd, package_name, package, stack, pending, answer, op0>>
obs == <<netLog, touched, started, calls, completed, listing>>
vars == <<env, fs, pc, ctl, out, err, obs, ncmds>>

\* Path of a directory under .../ravendevteam/ as the file system sees it.
FsKey(n) == IF caseInsensitive THEN lower(n) ELSE n

\* get_installation_path(package_name), as a key of dirs.
get_installation_path(n) == FsKey(n)

\* The directory of get_package_file_path().
CatalogDir == FsKey("toolbox")

Keys == {lower(n) : n \in Names} \cup Names

EmptyMap == [n \in {} |-> 0]

Entry(v, t) == [version |-> v, installed_on |-> t]

MapFile(m) == [kind |-> "map", map |-> m]
AbsentFile == [kind |-> "absent", map |-> EmptyMap]
\* A record.json holding a proper prefix of a JSON document.
TruncFile == [kind |-> "trunc", map |-> EmptyMap]
\* A record.json that holds well-formed JSON which is no object: [] or null.
ListFile == [kind |-> "list", map |-> EmptyMap]
NullFile == [kind |-> "null", map |-> EmptyMap]

Snap == [dirs |-> dirs, art |-> art, catFile |-> catFile, recFile |-> recFile]

\* datetime.now(): time moves on with every command typed.
now == ncmds

(***************************************************************************)
(* handle_error, read_record                                               *)
(***************************************************************************)
\* Where a call returns to: the wildcard loop that made it, or the prompt.
ReturnTo(stk) == IF stk = <<>> THEN "idle" ELSE "loop"

\* A handle_error that prints and returns to the caller.
handle_error_returns(message) ==
    /\ out' = out \cup {message}
    /\ err' = message
    /\ pc' = ReturnTo(stack)

\* handle_error: print the message, sys.exit(1). SystemExit is no Exception:
\* no except clause of the program catches it and the process ends.
handle_error(message) ==
    /\ out' = out \cup {message}
    /\ err' = message
    /\ pc' = "exited"

handle_warning(message) == out' = out \cup {message}

\* read_record: {} when the file is absent or does not parse, else whatever
\* json.load returns; nothing checks that this is a dict. read_record_type is
\* the type of the value returned, read_record its items when it is a dict.
read_record_type == IF recFile.kind \in {"list", "null"} THEN recFile.kind ELSE "dict"

read_record == IF recFile.kind = "map" THEN recFile.map ELSE EmptyMap

MapSet(m, k, e) == [n \in DOMAIN m \cup {k} |-> IF n = k THEN e ELSE m[n]]
MapDel(m, k) == [n \in DOMAIN m \ {k} |-> m[n]]

(***************************************************************************)
(* Initial states                                                          *)
(***************************************************************************)
NoArt == [k \in Keys |-> "none"]

\* The program starts at the prompt. What it finds on disk is what earlier
\* runs or the user left there: a cached catalog or none, a directory of Foo
\* with its artifact or none, a record entry of Foo or no record.json; the
\* directory and the entry need not agree.
Init ==
    /\ platform_name \in Platforms
    /\ caseInsensitive \in BOOLEAN
    /\ \E withCat \in BOOLEAN, withDir \in BOOLEAN, withRec \in BOOLEAN :
        /\ dirs = (IF withCat THEN {CatalogDir} ELSE {})
                    \cup (IF withDir THEN {FsKey("Foo")} ELSE {})
        /\ art = [NoArt EXCEPT ![FsKey("Foo")] = IF withDir THEN "c1" ELSE "none"]
        /\ catFile = IF withCat THEN "A" ELSE "absent"
        /\ recFile = IF withRec THEN MapFile(MapSet(EmptyMap, "Foo", Entry("1", 0)))
                                ELSE AbsentFile
    /\ pc = "idle"
    /\ cmd = [op |-> "none", name |-> "", skip |-> FALSE]
    /\ package_name = ""
    /\ package = NoPackage
    /\ stack = <<>>
    /\ pending = EmptyMap
    /\ out = {}
    /\ err = "none"
    /\ netLog = <<>>
    /\ answer = "none"
    /\ op0 = [dirs |-> dirs, art |-> art, catFile |-> catFile, recFile |-> recFile]
    /\ touched = {}
    /\ started = <<>>
    /\ calls = 0
    /\ completed = {}
    /\ listing = <<>>
    /\ ncmds = 0

(***************************************************************************)
(* main: one command line                                                  *)
(***************************************************************************)
Ops == {"install", "uninstall", "update", "list"}

StartOf(op) ==
    IF op = "install" THEN "i_start"
    ELSE IF op = "uninstall" THEN "u_start"
    ELSE op

\* main reads a line, splits it and calls the command's function.
Command ==
    /\ pc = "idle"
    /\ ncmds < MaxCmds
    /\ \E op \in Ops, n \in Names, y \in BOOLEAN :
        /\ op \in {"update", "list"} => (n = "nope" /\ ~y)
        /\ cmd' = [op |-> op, name |-> n, skip |-> y]
        /\ package_name' = n
        /\ pc' = StartOf(op)
    /\ ncmds' = ncmds + 1
    /\ package' = NoPackage
    /\ stack' = <<>>
    /\ pending' = EmptyMap
    /\ out' = {}
    /\ err' = "none"
    /\ netLog' = <<>>
    /\ answer' = "none"
    /\ op0' = Snap
    /\ touched' = {}
    /\ started' = <<>>
    /\ calls' = 0
    /\ completed' = {}
    /\ listing' = <<>>
    /\ UNCHANGED <<env, fs>>

(***************************************************************************)
(* write_record, in two steps: open(record_file, 'w') empties the file,    *)
(* json.dump then writes the document piece by piece                       *)
(***************************************************************************)
\* The handle_error message of the except clause of the running function.
Failure(cause) ==
    IF cmd.op = "uninstall" THEN "E_uninstall:" \o cause ELSE "E_install:" \o cause

\* open(record_file, 'w'): the file exists and is empty afterwards.
WriteOpen ==
    /\ pc = "w_open"
    /\ \/ /\ recFile' = TruncFile
          /\ pc' = "w_dump"
          /\ UNCHANGED <<out, err>>
       \/ /\ handle_error(Failure("open"))
          /\ UNCHANGED recFile
    /\ UNCHANGED <<env, dirs, art, catFile, ctl, obs, ncmds>>

\* json.dump(record, f, indent=4) and the close of the file.
WriteDump ==
    /\ pc = "w_dump"
    /\ \/ /\ recFile' = MapFile(pending)
          /\ pc' = ReturnTo(stack)
          /\ completed' = IF cmd.op = "install" THEN completed \cup {package_name}
                                                ELSE completed
          /\ UNCHANGED <<out, err>>
       \/ /\ handle_error(Failure("write"))
          /\ UNCHANGED <<recFile, completed>>
    /\ UNCHANGED <<env, dirs, art, catFile, ctl, netLog, touched, started, calls,
                   listing, ncmds>>

(***************************************************************************)
(* uninstall_package                                                       *)
(***************************************************************************)
\* A check that takes a record entry for a sign of an installation too.
path_or_entry_exists(n) ==
    get_installation_path(n) \in dirs \/ n \in DOMAIN read_record

\* An answer is taken for a yes unless it is an n.
yes_unless_n(a) == lower(strip(a)) # "n"

\* input(...).strip().lower() == 'y' is what lets a prompt pass.
Affirmative(a) == lower(strip(a)) = "y"

\* install_path.exists()
PathExists(n) == get_installation_path(n) \in dirs

\* Lines 64-67: the path, the not-installed check, the way to the prompt.
UninstallStart ==
    /\ pc = "u_start"
    /\ op0' = Snap
    /\ IF ~PathExists(package_name)
       THEN handle_error("E_not_installed")
       ELSE /\ pc' = IF cmd.skip THEN "u_remove" ELSE "u_confirm"
            /\ UNCHANGED <<out, err>>
    /\ UNCHANGED <<env, fs, cmd, package_name, package, stack, pending, answer, obs, ncmds>>

\* Lines 68-71: the prompt. EOF on stdin raises EOFError inside the try.
UninstallConfirm ==
    /\ pc = "u_confirm"
    /\ \/ \E a \in Answers :
            /\ answer' = a
            /\ IF Affirmative(a)
               THEN /\ pc' = "u_remove"
                    /\ UNCHANGED out
               ELSE /\ pc' = ReturnTo(stack)
                    /\ out' = out \cup {"M_uninstall_cancelled"}
            /\ UNCHANGED err
       \/ /\ handle_error(Failure("eof"))
          /\ UNCHANGED answer
    /\ UNCHANGED <<env, fs, cmd, package_name, package, stack, pending, op0, obs, ncmds>>

\* The state of the directory tree after shutil.rmtree(install_path) worked.
RemoveTree(k) ==
    /\ dirs' = dirs \ {k}
    /\ art' = [art EXCEPT ![k] = "none"]
    /\ catFile' = IF k = CatalogDir THEN "absent" ELSE catFile

\* shutil.rmtree raised: the directory is still there, some of its files may not be.
RemoveTreeFails(k) ==
    /\ dirs' = dirs
    /\ art' \in {art, [art EXCEPT ![k] = "none"]}
    /\ catFile' \in {catFile, IF k = CatalogDir THEN "absent" ELSE catFile}

\* An rmtree whose errors are ignored.
rmtree_ignore_errors(k) ==
    \/ /\ RemoveTree(k)
       /\ out' = out \cup {"M_uninstalled"}
       /\ UNCHANGED err
       /\ IF package_name \in DOMAIN read_record
          THEN /\ pending' = MapDel(read_record, package_name)
               /\ pc' = "w_open"
          ELSE /\ pc' = ReturnTo(stack)
               /\ UNCHANGED pending
    \/ /\ RemoveTreeFails(k)
       /\ out' = out \cup {"M_uninstalled"}
       /\ UNCHANGED err
       /\ IF package_name \in DOMAIN read_record
          THEN /\ pending' = MapDel(read_record, package_name)
               /\ pc' = "w_open"
          ELSE /\ pc' = ReturnTo(stack)
               /\ UNCHANGED pending

\* A removal that deletes the record entry without looking for it first.
remove_unchecked(k) ==
    \/ /\ RemoveTree(k)
       /\ IF package_name \in DOMAIN read_record
          THEN /\ pending' = MapDel(read_record, package_name)
               /\ pc' = "w_open"
               /\ out' = out \cup {"M_uninstalled"}
               /\ UNCHANGED err
          ELSE /\ handle_error(Failure("KeyError"))
               /\ UNCHANGED pending
    \/ /\ RemoveTreeFails(k)
       /\ handle_error(Failure("rmtree"))
       /\ UNCHANGED pending

\* Lines 72-79: rmtree, the success message, the record entry's removal.
\* `package_name in record` raises TypeError when record is None and is
\* False when it is the list []; the except clause of line 78 catches the
\* TypeError and calls handle_error.
rmtree_then_record(k) ==
    \/ /\ RemoveTree(k)
       /\ IF read_record_type = "null"
          THEN /\ out' = out \cup {"M_uninstalled", Failure("TypeError")}
               /\ err' = Failure("TypeError")
               /\ pc' = "exited"
               /\ UNCHANGED pending
          ELSE /\ out' = out \cup {"M_uninstalled"}
               /\ UNCHANGED err
               /\ IF package_name \in DOMAIN read_record
                  THEN /\ pending' = MapDel(read_record, package_name)
                       /\ pc' = "w_open"
                  ELSE /\ pc' = ReturnTo(stack)
                       /\ UNCHANGED pending
    \/ /\ RemoveTreeFails(k)
       /\ handle_error(Failure("rmtree"))
       /\ UNCHANGED pending

UninstallRemove ==
    /\ pc = "u_remove"
    /\ rmtree_then_record(get_installation_path(package_name))
    /\ touched' = touched \cup {get_installation_path(package_name)}
    /\ UNCHANGED <<env, recFile, cmd, package_name, package, stack, answer, op0,
                   netLog, started, calls, completed, listing, ncmds>>

(***************************************************************************)
(* ensure_packages_file, install_package                                   *)
(***************************************************************************)
\* The ways ensure_packages_file can end when it has to download: the
\* directory cannot be made; the fetch fails (leaving no file, or part of
\* one); the fetch stores what the default url serves.
DownloadList ==
    {[ok |-> FALSE, dirs |-> dirs, cat |-> "absent", net |-> <<>>]}
      \cup {[ok |-> FALSE, dirs |-> dirs \cup {CatalogDir}, cat |-> c, net |-> <<DefaultURL>>] :
              c \in {"absent", "corrupt"}}
      \cup {[ok |-> TRUE, dirs |-> dirs \cup {CatalogDir}, cat |-> d, net |-> <<DefaultURL>>] :
              d \in RemoteDocs}

\* An ensure_packages_file that downloads whether or not the file exists.
ensure_always_downloads == DownloadList

\* ensure_packages_file: nothing to do when packages.json exists.
ensure_packages_file ==
    IF catFile # "absent"
    THEN {[ok |-> TRUE, dirs |-> dirs, cat |-> catFile, net |-> <<>>]}
    ELSE DownloadList

\* next((pkg for pkg in packages if pkg["name"].lower() == package_name.lower()), None)
resolve(packages, n) ==
    LET hits == {i \in 1..Len(packages) : lower(packages[i].name) = lower(n)}
    IN  IF hits = {} THEN NoPackage
        ELSE packages[CHOOSE i \in hits : \A j \in hits : i <= j]

NamesOf(packages) == [i \in 1..Len(packages) |-> packages[i].name]

\* platform_name in package["os"]
supported(p) == platform_name \in p.os

\* Lines 187-200: the catalog, the wildcard, the descriptor, the platform.
InstallStart ==
    /\ pc = "i_start"
    /\ op0' = Snap
    /\ \E r \in ensure_packages_file :
        /\ dirs' = r.dirs
        /\ catFile' = r.cat
        /\ netLog' = r.net
        /\ IF ~r.ok
           THEN /\ handle_error("E_download_list")
                /\ UNCHANGED <<package, stack>>
           ELSE IF r.cat = "corrupt"
           THEN /\ handle_error(Failure("JSONDecodeError"))
                /\ UNCHANGED <<package, stack>>
           ELSE IF package_name = "*"
           THEN IF Len(stack) >= RecursionLimit
                THEN /\ handle_error(Failure("RecursionError"))
                     /\ UNCHANGED <<package, stack>>
                ELSE /\ stack' = Append(stack, NamesOf(CatDoc(r.cat).packages))
                     /\ pc' = "loop"
                     /\ UNCHANGED <<package, out, err>>
           ELSE LET p == resolve(CatDoc(r.cat).packages, package_name)
                IN  /\ package' = p
                    /\ UNCHANGED stack
                    /\ IF p = NoPackage
                       THEN handle_error("E_not_found")
                       ELSE IF ~supported(p)
                       THEN handle_error("E_platform")
                       ELSE /\ pc' = IF cmd.skip THEN "i_prepare" ELSE "i_confirm"
                            /\ UNCHANGED <<out, err>>
    /\ UNCHANGED <<env, art, recFile, cmd, package_name, pending, answer, touched,
                   started, calls, completed, listing, ncmds>>

\* Lines 192-194: one turn of `for package in packages`, or its end.
LoopNext ==
    /\ pc = "loop"
    /\ LET top == stack[Len(stack)]
       IN  IF top = <<>>
           THEN /\ stack' = SubSeq(stack, 1, Len(stack) - 1)
                /\ pc' = ReturnTo(stack')
                /\ UNCHANGED <<package_name, answer, started, calls>>
           ELSE /\ stack' = [stack EXCEPT ![Len(stack)] = Tail(top)]
                /\ package_name' = Head(top)
                /\ answer' = "none"
                /\ started' = IF Len(stack) = 1 THEN Append(started, Head(top)) ELSE started
                /\ calls' = calls + 1
                /\ pc' = "i_start"
    /\ UNCHANGED <<env, fs, cmd, package, pending, op0, out, err, netLog,
                   touched, completed, listing, ncmds>>

\* Lines 201-205: the prompt.
InstallConfirm ==
    /\ pc = "i_confirm"
    /\ \/ \E a \in Answers :
            /\ answer' = a
            /\ IF Affirmative(a)
               THEN /\ pc' = "i_prepare"
                    /\ UNCHANGED out
               ELSE /\ pc' = ReturnTo(stack)
                    /\ out' = out \cup {"M_install_cancelled"}
            /\ UNCHANGED err
       \/ /\ handle_error(Failure("eof"))
          /\ UNCHANGED answer
    /\ UNCHANGED <<env, fs, cmd, package_name, package, stack, pending, op0, obs, ncmds>>

\* The directory made before the url and the digest are looked up.
mkdir_then_lookup(k) ==
    \/ /\ dirs' = dirs \cup {k}
       /\ touched' = touched \cup {k}
       /\ IF ~HasKey(package.url, platform_name) \/ ~HasKey(package.sha256, platform_name)
          THEN handle_error(Failure("KeyError"))
          ELSE /\ pc' = "i_fetch"
               /\ UNCHANGED <<out, err>>
    \/ /\ handle_error(Failure("mkdir"))
       /\ UNCHANGED <<dirs, touched>>

\* Lines 206-210: package["url"][platform_name], package["sha256"][platform_name]
\* (a KeyError when the platform has no entry), then install_path.mkdir.
lookup_then_mkdir(k) ==
    IF ~HasKey(package.url, platform_name) \/ ~HasKey(package.sha256, platform_name)
    THEN /\ handle_error(Failure("KeyError"))
         /\ UNCHANGED <<dirs, touched>>
    ELSE \/ /\ dirs' = dirs \cup {k}
            /\ touched' = touched \cup {k}
            /\ pc' = "i_fetch"
            /\ UNCHANGED <<out, err>>
         \/ /\ handle_error(Failure("mkdir"))
            /\ UNCHANGED <<dirs, touched>>

InstallPrepare ==
    /\ pc = "i_prepare"
    /\ lookup_then_mkdir(get_installation_path(package_name))
    /\ UNCHANGED <<env, art, catFile, recFile, ctl, netLog, started, calls, completed,
                   listing, ncmds>>

\* Lines 211-217: urlretrieve(url, download_path).
InstallFetch ==
    /\ pc = "i_fetch"
    /\ netLog' = Append(netLog, Get(package.url, platform_name))
    /\ LET k == get_installation_path(package_name)
       IN  \/ /\ \E c \in Contents : art' = [art EXCEPT ![k] = c]
              /\ pc' = "i_verify"
              /\ UNCHANGED <<out, err>>
           \/ /\ art' \in {art, [art EXCEPT ![k] = "partial"]}
              /\ handle_error(Failure("fetch"))
    /\ UNCHANGED <<env, dirs, catFile, recFile, ctl, touched, started, calls, completed,
                   listing, ncmds>>

\* A digest check that accepts every file.
validate_always(content, expected_hash) == TRUE

\* A digest check that compares the hex strings without regard to case.
validate_ignoring_case(content, expected_hash) ==
    lower(hexdigest(content)) = lower(expected_hash)

\* validate_checksum: the file's hex digest equals the expected string.
validate_checksum(content, expected_hash) == hexdigest(content) = expected_hash

\* The record after line 227-230.
upsert(record, n, p) == MapSet(record, n, Entry(p.version, now))

\* A create_shortcut whose failure is an error of the installation.
shortcut_failure_aborts ==
    \/ /\ out' = out \cup {"M_installed"}
       /\ pending' = upsert(read_record, package_name, package)
       /\ pc' = "w_open"
       /\ UNCHANGED err
    \/ /\ package.shortcut
       /\ out' = out \cup {"M_installed", "W_shortcut"}
       /\ err' = "E_install:shortcut"
       /\ pc' = "exited"
       /\ UNCHANGED pending

\* Lines 220-231 up to the call of write_record: the success message, the
\* shortcut when the descriptor asks for one (create_shortcut catches every
\* Exception of its own and calls handle_warning), then the entry.
\* record[package_name] = {...} raises TypeError when record is no dict; the
\* except clause of line 234 catches it and calls handle_error.
shortcut_then_record ==
    \E shortcut_ok \in (IF package.shortcut THEN BOOLEAN ELSE {TRUE}) :
        LET printed == {"M_installed"} \cup (IF shortcut_ok THEN {} ELSE {"W_shortcut"})
        IN  IF read_record_type = "dict"
            THEN /\ out' = out \cup printed
                 /\ pending' = upsert(read_record, package_name, package)
                 /\ pc' = "w_open"
                 /\ UNCHANGED err
            ELSE /\ out' = out \cup printed \cup {Failure("TypeError")}
                 /\ err' = Failure("TypeError")
                 /\ pc' = "exited"
                 /\ UNCHANGED pending

\* Lines 218-231 up to the call of write_record: the digest check, then the
\* success message, the shortcut and the entry.
InstallVerify ==
    /\ pc = "i_verify"
    /\ LET k == get_installation_path(package_name)
       IN  IF ~validate_checksum(art[k], Get(package.sha256, platform_name))
           THEN /\ handle_error("E_checksum")
                /\ UNCHANGED pending
           ELSE shortcut_then_record
    /\ UNCHANGED <<env, fs, cmd, package_name, package, stack, answer, op0, obs, ncmds>>

(***************************************************************************)
(* update_packages, list_packages                                          *)
(***************************************************************************)
\* Lines 95-100: the updateurl of the cached catalog, else the default.
update_url_of(cat) ==
    IF cat \in {"absent", "corrupt"} THEN DefaultURL
    ELSE IF HasKey(CatDoc(cat).updateurl, "updateurl")
         THEN Get(CatDoc(cat).updateurl, "updateurl")
         ELSE DefaultURL

update_url == update_url_of(catFile)

\* Lines 95-102.
UpdateStart ==
    /\ pc = "update"
    /\ op0' = Snap
    /\ out' = out \cup (IF catFile \in {"absent", "corrupt"} THEN {"M_list_missing_or_invalid"}
                                                          ELSE {})
    /\ pc' = "update_fetch"
    /\ UNCHANGED <<env, fs, cmd, package_name, package, stack, pending, answer, err, obs, ncmds>>

\* Lines 103-107: urlretrieve(update_url, get_package_file_path()). The url
\* is opened first, the file second: nothing creates the file's directory
\* here, and without it the open raises FileNotFoundError. A transfer that
\* breaks off leaves the part of the file written so far.
UpdateFetch ==
    /\ pc = "update_fetch"
    /\ netLog' = Append(netLog, update_url)
    /\ \/ /\ CatalogDir \in dirs
          /\ \E d \in RemoteDocs : catFile' = d
          /\ out' = out \cup {"M_updated"}
          /\ pc' = "idle"
          /\ UNCHANGED err
       \/ /\ CatalogDir \notin dirs
          /\ UNCHANGED catFile
          /\ handle_error("E_update:FileNotFoundError")
       \/ /\ catFile' \in {catFile} \cup (IF CatalogDir \in dirs THEN {"corrupt"} ELSE {})
          /\ handle_error("E_update:fetch")
    /\ UNCHANGED <<env, dirs, art, recFile, ctl, touched, started, calls, completed,
                   listing, ncmds>>

\* A listing that leaves out the descriptors the platform cannot install.
list_supported_only(packages) ==
    LET keep == SelectSeq(packages, LAMBDA p : platform_name \in p.os)
    IN  [i \in 1..Len(keep) |-> keep[i].name]

\* Lines 115-121: the loop prints one block per element of data["packages"],
\* in the order of the list; the block is held by the descriptor's name.
list_summaries(packages) == [i \in 1..Len(packages) |-> packages[i].name]

\* list_packages.
List ==
    /\ pc = "list"
    /\ op0' = Snap
    /\ \E r \in ensure_packages_file :
        /\ dirs' = r.dirs
        /\ catFile' = r.cat
        /\ netLog' = r.net
        /\ IF ~r.ok
           THEN /\ handle_error("E_download_list")
                /\ UNCHANGED listing
           ELSE IF r.cat = "corrupt"
           THEN /\ handle_error("E_list_corrupt")
                /\ UNCHANGED listing
           ELSE /\ listing' = list_summaries(CatDoc(r.cat).packages)
                /\ out' = out \cup {"M_available"}
                /\ pc' = "idle"
                /\ UNCHANGED err
    /\ UNCHANGED <<env, art, recFile, cmd, package_name, package, stack, pending, answer,
                   touched, started, calls, completed, ncmds>>

(***************************************************************************)
(* The process ending from outside, and the next session                   *)
(***************************************************************************)
\* Ctrl-C while the process waits at a prompt: KeyboardInterrupt reaches
\* main's except clause, which says goodbye and leaves the loop.
InterruptPrompt ==
    /\ pc \in {"i_confirm", "u_confirm"}
    /\ pc' = "exited"
    /\ out' = out \cup {"M_goodbye"}
    /\ UNCHANGED <<env, fs, ctl, err, obs, ncmds>>

\* The process is killed (or the machine stops) in the middle of a command.
Crash ==
    /\ pc \notin {"idle", "exited", "crashed"}
    /\ pc' = "crashed"
    /\ UNCHANGED <<env, fs, ctl, out, err, obs, ncmds>>

\* The user starts the program again.
Restart ==
    /\ pc \in {"exited", "crashed"}
    /\ ncmds < MaxCmds
    /\ pc' = "idle"
    /\ cmd' = [op |-> "none", name |-> "", skip |-> FALSE]
    /\ out' = {}
    /\ err' = "none"
    /\ UNCHANGED <<env, fs, package_name, package, stack, pending, answer, op0, obs, ncmds>>

\* Ctrl-C while urlretrieve runs: part of the file may be on disk.
InterruptFetch ==
    /\ pc = "i_fetch"
    /\ netLog' = Append(netLog, Get(package.url, platform_name))
    /\ art' \in {art, [art EXCEPT ![get_installation_path(package_name)] = "partial"]}
    /\ pc' = "exited"
    /\ out' = out \cup {"M_goodbye"}
    /\ UNCHANGED <<env, dirs, catFile, recFile, ctl, err, touched, started, calls,
                   completed, listing, ncmds>>

Next ==
    \/ Command
    \/ UninstallStart
    \/ UninstallConfirm
    \/ UninstallRemove
    \/ InstallStart
    \/ LoopNext
    \/ InstallConfirm
    \/ InstallPrepare
    \/ InstallFetch
    \/ InstallVerify
    \/ WriteOpen
    \/ WriteDump
    \/ UpdateStart
    \/ UpdateFetch
    \/ List
    \/ InterruptPrompt
    \/ InterruptFetch
    \/ Crash
    \/ Restart

Spec == Init /\ [][Next]_vars

\* The program started on a machine where record.json was left in any of the
\* forms read_record has to cope with: no file, a broken document, an object
\* with an entry, or well-formed JSON that is no object. The catalog is
\* cached and Foo's directory holds its file.
InitRec ==
    /\ platform_name \in Platforms
    /\ caseInsensitive = FALSE
    /\ dirs = {CatalogDir, FsKey("Foo")}
    /\ art = [NoArt EXCEPT ![FsKey("Foo")] = "c1"]
    /\ catFile = "A"
    /\ recFile \in {AbsentFile, TruncFile, ListFile, NullFile,
                    MapFile(MapSet(EmptyMap, "Foo", Entry("1", 0)))}
    /\ pc = "idle"
    /\ cmd = [op |-> "none", name |-> "", skip |-> FALSE]
    /\ package_name = ""
    /\ package = NoPackage
    /\ stack = <<>>
    /\ pending = EmptyMap
    /\ out = {}
    /\ err = "none"
    /\ netLog = <<>>
    /\ answer = "none"
    /\ op0 = [dirs |-> dirs, art |-> art, catFile |-> catFile, recFile |-> recFile]
    /\ touched = {}
    /\ started = <<>>
    /\ calls = 0
    /\ completed = {}
    /\ listing = <<>>
    /\ ncmds = 0

SpecRec == InitRec /\ [][Next]_vars

\* Failures of the disk, the network and the terminal, as against failures of
\* the package asked for.
IOErrors ==
    {"E_download_list", "E_install:mkdir", "E_install:fetch", "E_install:open",
     "E_install:write", "E_install:eof", "E_uninstall:rmtree", "E_uninstall:open",
     "E_uninstall:write", "E_uninstall:eof"}

\* A first run: no record.json and no installation directory; the catalog
\* is cached or not.
InitClean ==
    /\ platform_name \in Platforms
    /\ caseInsensitive \in BOOLEAN
    /\ \E withCat \in BOOLEAN :
        /\ dirs = (IF withCat THEN {CatalogDir} ELSE {})
        /\ catFile = IF withCat THEN "A" ELSE "absent"
    /\ art = NoArt
    /\ recFile = AbsentFile
    /\ pc = "idle"
    /\ cmd = [op |-> "none", name |-> "", skip |-> FALSE]
    /\ package_name = ""
    /\ package = NoPackage
    /\ stack = <<>>
    /\ pending = EmptyMap
    /\ out = {}
    /\ err = "none"
    /\ netLog = <<>>
    /\ answer = "none"
    /\ op0 = [dirs |-> dirs, art |-> art, catFile |-> catFile, recFile |-> recFile]
    /\ touched = {}
    /\ started = <<>>
    /\ calls = 0
    /\ completed = {}
    /\ listing = <<>>
    /\ ncmds = 0

\* The steps of install and uninstall commands that run to their end with a
\* disk, a network and a terminal that work: no kill, no Ctrl-C, no I/O error.
NextClean ==
    \/ Command /\ cmd'.op \in {"install", "uninstall"}
    \/ WriteOpen /\ err' \notin IOErrors
    \/ WriteDump /\ err' \notin IOErrors
    \/ UninstallStart
    \/ UninstallConfirm /\ err' \notin IOErrors
    \/ UninstallRemove /\ err' \notin IOErrors
    \/ InstallStart /\ err' \notin IOErrors
    \/ LoopNext
    \/ InstallConfirm /\ err' \notin IOErrors
    \/ InstallPrepare /\ err' \notin IOErrors
    \/ InstallFetch /\ err' \notin IOErrors
    \/ InstallVerify
    \/ Restart

SpecClean == InitClean /\ [][NextClean]_vars

TypeOK ==
    /\ dirs \subseteq Keys
    /\ \A k \in Keys : art[k] \in {"none", "partial"} \cup Contents
    /\ \A k \in Keys : k \notin dirs => art[k] = "none"
    /\ catFile \in {"absent", "corrupt", "A", "S"}
    /\ catFile # "absent" => CatalogDir \in dirs
    /\ recFile.kind \in {"absent", "trunc", "map", "list", "null"}
    /\ DOMAIN recFile.map \subseteq Names
    /\ Len(stack) <= RecursionLimit

(***************************************************************************)
(* Properties                                                              *)
(***************************************************************************)
\* The directory of the running call.
InstallPath == get_installation_path(package_name)

\* Everything under .../ravendevteam/ but the catalog and its directory.
Installations(f) == [dirs |-> f.dirs \ {CatalogDir}, art |-> f.art, recFile |-> f.recFile]

\* C1: an install whose downloaded file's SHA-256 hex digest differs from the
\* descriptor's digest for the platform ends in the checksum error and the
\* end of the process, with record.json as it was when the call began and
\* the downloaded file still in the installation directory; and no install
\* gets as far as writing the record with such a file.
C1_IntegrityFailure ==
    /\ (cmd.op = "install" /\ err = "E_checksum") =>
          /\ pc = "exited"
          /\ "E_checksum" \in out
          /\ recFile = op0.recFile
          /\ InstallPath \in dirs
          /\ art[InstallPath] \in Contents
          /\ hexdigest(art[InstallPath]) # Get(package.sha256, platform_name)
    /\ (cmd.op = "install" /\ pc \in {"w_open", "w_dump"}) =>
          hexdigest(art[InstallPath]) = Get(package.sha256, platform_name)

C1_Witness ==
    /\ cmd.op = "install"
    /\ cmd.skip
    /\ err = "E_checksum"
    /\ pc = "exited"
    /\ op0.art[InstallPath] = "none"
    /\ art[InstallPath] = "c2"
    /\ package_name \notin DOMAIN read_record

\* C2 as stated: when install fails with the unsupported-platform error, no
\* url at all has been fetched by that call.
C2_NoFetchBeforeUnsupported ==
    (cmd.op = "install" /\ err = "E_platform") => netLog = <<>>

\* C2, amended: an install of a catalog package that the platform is not in
\* the os of ends in the unsupported-platform error before any artifact is
\* fetched; the one fetch that can come before it is the download of the
\* catalog from the default url, and only when packages.json did not exist.
C2_NoArtifactFetchBeforeUnsupported ==
    /\ (cmd.op = "install" /\ err = "E_platform") =>
          /\ pc = "exited"
          /\ platform_name \notin package.os
          /\ netLog = (IF op0.catFile = "absent" THEN <<DefaultURL>> ELSE <<>>)
    /\ (cmd.op = "install" /\ pc \in {"i_confirm", "i_prepare", "i_fetch", "i_verify"}) =>
          platform_name \in package.os

C2_Witness ==
    /\ cmd.op = "install"
    /\ err = "E_platform"
    /\ package.name = "bar"
    /\ op0.catFile = "A"
    /\ netLog = <<>>

\* The handle_error messages of the failures of steps 1-6 that C3 names.
EarlyFailures ==
    {"E_download_list", "E_not_found", "E_platform", "E_install:KeyError"}

\* C3 as stated: after an install that failed in steps 1-6 every file,
\* directory and the record are what they were when the call began.
C3_EarlyFailureChangesNothing ==
    (cmd.op = "install" /\ err \in EarlyFailures) => Snap = op0

\* C3, amended: after an install that failed in steps 1-6 the record, the
\* installation directories and the artifacts are what they were when the
\* call began, and so are the catalog file and its directory if the catalog
\* file existed then (else step 1 has made the directory and tried a download).
C3_EarlyFailureKeepsInstallations ==
    (cmd.op = "install" /\ err \in EarlyFailures) =>
        /\ pc = "exited"
        /\ Installations(Snap) = Installations(op0)
        /\ op0.catFile # "absent" => Snap = op0

C3_Witness ==
    /\ cmd.op = "install"
    /\ err = "E_install:KeyError"
    /\ package.name = "baz"
    /\ platform_name = "Darwin"
    /\ InstallPath \notin dirs

\* C4 as stated: once a prompt of install or uninstall has been answered
\* with something other than y or Y, the call has ended without an error,
\* the process lives, and every file, directory and the record are what
\* they were when the call began.
C4_NonYesIsCleanCancel ==
    (cmd.op \in {"install", "uninstall"} /\ answer \notin {"none", "y", "Y"} /\ pc # "crashed") =>
        /\ pc \in {"idle", "loop"}
        /\ err = "none"
        /\ Snap = op0

\* C4, amended: once a prompt of install or uninstall has been answered with
\* something that is not y after stripping blanks and lower-casing, the call
\* has ended with the cancel message and without an error, the process
\* lives, and the record, the installation directories and the artifacts are
\* what they were when the call began; so are the catalog file and its
\* directory, unless install found no catalog file and downloaded it before
\* it asked.
C4_NonAffirmativeIsCleanCancel ==
    (/\ cmd.op \in {"install", "uninstall"}
     /\ answer # "none"
     /\ lower(strip(answer)) # "y"
     /\ pc # "crashed") =>
        /\ pc \in {"idle", "loop"}
        /\ err = "none"
        /\ (IF cmd.op = "install" THEN "M_install_cancelled" ELSE "M_uninstall_cancelled") \in out
        /\ Installations(Snap) = Installations(op0)
        /\ (cmd.op = "uninstall" \/ op0.catFile # "absent") => Snap = op0

C4_Witness ==
    /\ cmd.op = "install"
    /\ cmd.name = "Foo"
    /\ answer = "n"
    /\ pc = "idle"
    /\ package = pkgFoo
    /\ "M_install_cancelled" \in out

Range(q) == {q[i] : i \in 1..Len(q)}

\* C5: during an install, record.json changes only in write_record at the
\* end of install_package (emptied by the open, then filled with the record
\* that has the entry of the package), and by then the file in the
\* installation directory has been fetched and has the expected digest. No
\* step before that, whether it ends in a cancel, an interrupt or an error,
\* changes record.json.
C5_RecordOnlyAtFinalStep ==
    [][(cmd.op = "install" /\ recFile' # recFile) =>
          /\ pc \in {"w_open", "w_dump"}
          /\ recFile' \in {TruncFile, MapFile(pending)}
          /\ package_name \in DOMAIN pending
          /\ pending[package_name].version = package.version
          /\ InstallPath \in dirs
          /\ Get(package.url, platform_name) \in Range(netLog)
          /\ art[InstallPath] \in Contents
          /\ hexdigest(art[InstallPath]) = Get(package.sha256, platform_name)]_vars

C5_Witness ==
    /\ cmd.op = "install"
    /\ pc = "idle"
    /\ package_name \in completed
    /\ package_name \notin DOMAIN op0.recFile.map
    /\ package_name \in DOMAIN read_record
    /\ op0.art[InstallPath] = "partial"

\* The record a call found when it began.
Record0 == IF op0.recFile.kind = "map" THEN op0.recFile.map ELSE EmptyMap

\* The confirmation was given: -y, or a y at the prompt.
Granted == cmd.skip \/ lower(strip(answer)) = "y"

\* Errors of the file system under uninstall: rmtree, open, write.
IOFailures == {"E_uninstall:rmtree", "E_uninstall:open", "E_uninstall:write"}

\* C6 as stated: an uninstall with the confirmation given, begun when a
\* record entry or an installation directory of the name existed, succeeds
\* (file system errors aside).
C6_SucceedsIfEitherExists ==
    (/\ cmd.op = "uninstall"
     /\ Granted
     /\ pc \in {"idle", "exited"}
     /\ (package_name \in DOMAIN Record0 \/ InstallPath \in op0.dirs)) =>
        \/ err \in IOFailures
        \/ err = "none" /\ "M_uninstalled" \in out

\* C6, amended: an uninstall with the confirmation given succeeds whenever
\* the installation directory of the name exists, with or without a record
\* entry (unless rmtree or the saving of the record fails), and it does not
\* fail for want of a record entry; with a record entry but no directory it
\* fails with the not-installed error.
C6_SucceedsIfDirectoryExists ==
    (cmd.op = "uninstall" /\ Granted /\ pc \in {"idle", "exited"}) =>
        IF InstallPath \in op0.dirs
        THEN /\ \/ err \in IOFailures
                \/ /\ err = "none"
                   /\ pc = "idle"
                   /\ "M_uninstalled" \in out
                   /\ InstallPath \notin dirs
                   /\ package_name \notin DOMAIN read_record
             /\ package_name \notin DOMAIN Record0 => err \in {"none", "E_uninstall:rmtree"}
        ELSE err = "E_not_installed"

C6_Witness ==
    /\ cmd.op = "uninstall"
    /\ Granted
    /\ pc = "idle"
    /\ err = "none"
    /\ InstallPath \in op0.dirs
    /\ package_name \notin DOMAIN Record0
    /\ "M_uninstalled" \in out

\* C7: an uninstall begun when the installation directory of the name does
\* not exist ends in the not-installed error, with or without a record entry
\* of the name, and leaves record.json as it was; and an uninstall that
\* removed the directory and found no record entry of the name ends without
\* an error, the record untouched.
C7_NotInstalledWithoutDirectory ==
    /\ (cmd.op = "uninstall" /\ pc \notin {"u_start", "crashed"} /\ InstallPath \notin op0.dirs) =>
          /\ err = "E_not_installed"
          /\ pc = "exited"
          /\ "M_uninstalled" \notin out
          /\ Snap = op0
    /\ (cmd.op = "uninstall" /\ "M_uninstalled" \in out /\ package_name \notin DOMAIN Record0) =>
          /\ err = "none"
          /\ pc = "idle"
          /\ recFile = op0.recFile

C7_Witness ==
    /\ cmd.op = "uninstall"
    /\ err = "E_not_installed"
    /\ pc = "exited"
    /\ package_name \in DOMAIN read_record
    /\ InstallPath \notin dirs

\* C8: when rmtree fails in uninstall, the call ends in the uninstall error
\* and the end of the process, no success message is printed and record.json
\* is as it was when the call began; a success message is printed only when
\* the directory is gone.
C8_RemovalFailureAborts ==
    /\ (cmd.op = "uninstall" /\ err = "E_uninstall:rmtree") =>
          /\ pc = "exited"
          /\ "M_uninstalled" \notin out
          /\ recFile = op0.recFile
          /\ InstallPath \in dirs
    /\ (cmd.op = "uninstall" /\ "M_uninstalled" \in out) => InstallPath \notin dirs

C8_Witness ==
    /\ cmd.op = "uninstall"
    /\ err = "E_uninstall:rmtree"
    /\ package_name \in DOMAIN read_record
    /\ art[InstallPath] # op0.art[InstallPath]

\* The failures of one package's install that C9 names.
PackageFailures == {"E_not_found", "E_platform", "E_install:fetch", "E_checksum"}

\* C9: install('*') calls install_package for the catalog's names one after
\* the other in catalog order, each with its own prompt unless -y was given;
\* an error in one of them ends the process, so that only the directories of
\* names the loop has got to have been created or written, and the names
\* installed before the failing one still have their directory and their
\* record entry.
C9_WildcardFailFast ==
    (cmd.op = "install" /\ cmd.name = "*") =>
        /\ stack # <<>> => started \o stack[1] = NamesOf(CatDoc(catFile).packages)
        /\ err # "none" => pc = "exited"
        /\ touched \subseteq {get_installation_path(n) : n \in Range(started)}
        /\ err \in PackageFailures =>
              \A n \in completed :
                  /\ get_installation_path(n) \in dirs
                  /\ n \in DOMAIN read_record
        /\ (~cmd.skip /\ pc \in {"i_prepare", "i_fetch", "i_verify", "w_open", "w_dump"}) =>
              lower(strip(answer)) = "y"

C9_Witness ==
    /\ cmd.op = "install"
    /\ cmd.name = "*"
    /\ pc = "exited"
    /\ err = "E_checksum"
    /\ started = <<"Foo", "bar">>
    /\ completed = {"Foo"}
    /\ stack = <<(<<"baz">>)>>
    /\ get_installation_path("baz") \notin dirs
    /\ "baz" \notin DOMAIN read_record

\* C10: a crash leaves record.json either as the call found it or holding
\* the complete record the call was saving.
C10_SaveIsCrashSafe ==
    (pc = "crashed" /\ op0.recFile.kind # "trunc") =>
        recFile \in {op0.recFile, MapFile(pending)}

\* The entries of record.json whose names differ from n at most in case.
EntriesOf(n) == {e \in DOMAIN read_record : lower(e) = lower(n)}

\* C11: after an install that ran to its end record.json holds exactly one
\* entry for the descriptor it installed, in whatever case the name was
\* typed; after an uninstall that ran to its end it holds none for the name.
C11_OneEntryPerPackage ==
    /\ (cmd.op = "install" /\ cmd.name # "*" /\ pc = "idle" /\ err = "none"
          /\ package_name \in completed) =>
          Cardinality(EntriesOf(package.name)) = 1
    /\ (cmd.op = "uninstall" /\ pc = "idle" /\ err = "none" /\ "M_uninstalled" \in out) =>
          EntriesOf(package_name) = {}

\* The errors of a package that the session is said to survive.
SessionErrors == {"E_checksum", "E_platform", "E_not_found"}

\* C12: an integrity failure, an unsupported-platform error or a
\* package-not-found error of a command is shown to the user and the session
\* goes on: the process has not exited and the prompt comes back.
C12_ErrorAbortsOnlyCommand ==
    err \in SessionErrors => (err \in out /\ pc # "exited")

\* C13: the state of the local catalog never blocks a refresh. A finished
\* update has fetched from the updateurl of the catalog it found, or from the
\* default url with an advisory when the catalog file was missing (its
\* directory too) or not parseable; and unless the network failed, the
\* catalog file holds a fetched document afterwards.
C13_RefreshNeverBlocked ==
    (cmd.op = "update" /\ pc \in {"idle", "exited"}) =>
        /\ netLog = <<update_url_of(op0.catFile)>>
        /\ op0.catFile \in {"absent", "corrupt"} => "M_list_missing_or_invalid" \in out
        /\ err # "E_update:fetch" =>
              /\ err = "none"
              /\ "M_updated" \in out
              /\ catFile \in RemoteDocs

\* Errors of writing record.json under install.
RecordWriteFailures == {"E_install:open", "E_install:write"}

\* C14: when the shortcut of a descriptor that asks for one cannot be made
\* after the fetch and the digest check succeeded, the install only warns:
\* the step that warns goes on to write_record with the entry of the
\* descriptor's version and leaves every file alone, and the command then
\* ends with the directory, the verified file and the entry in place unless
\* writing record.json itself fails.
C14_ShortcutFailureIsWarning ==
    [][/\ (pc = "i_verify" /\ "W_shortcut" \notin out /\ "W_shortcut" \in out') =>
            /\ package.shortcut
            /\ pc' = "w_open"
            /\ err' = "none"
            /\ fs' = fs
            /\ pending'[package_name].version = package.version
       /\ (cmd'.op = "install" /\ cmd'.name # "*" /\ "W_shortcut" \in out') =>
            /\ get_installation_path(package_name') \in dirs'
            /\ hexdigest(art'[get_installation_path(package_name')])
                  = Get(package'.sha256, platform_name')
            /\ pc' \in {"w_open", "w_dump", "idle", "exited", "crashed"}
            /\ pc' \in {"w_open", "w_dump"} =>
                  /\ err' = "none"
                  /\ pending'[package_name'].version = package'.version
            /\ pc' = "idle" =>
                  /\ err' = "none"
                  /\ package_name' \in DOMAIN recFile'.map
                  /\ recFile'.map[package_name'].version = package'.version
            /\ pc' = "exited" => err' \in RecordWriteFailures
      ]_vars

C14_Witness ==
    /\ cmd.op = "install"
    /\ cmd.name # "*"
    /\ pc = "idle"
    /\ err = "none"
    /\ package.shortcut
    /\ "W_shortcut" \in out
    /\ package_name \in DOMAIN read_record
    /\ read_record[package_name].version = package.version

\* The errors that come from a record.json whose content is no object.
RecordContentFailures == {"E_install:TypeError", "E_uninstall:TypeError"}

\* C16: loading record.json never fails and always yields a mapping, whatever
\* the file holds, so that no install and no uninstall ends in an error
\* because of the file's content.
C16_LoadAlwaysYieldsMapping ==
    /\ pc \in {"i_verify", "u_remove"} => read_record_type = "dict"
    /\ err \notin RecordContentFailures

\* C15: an install that got to its record entry and whose write of
\* record.json did not fail leaves a file that loads as a mapping in which
\* the name maps to exactly the descriptor's version and the time of the
\* install, the other entries that could be loaded before being the same.
C15_UpsertRoundTrip ==
    (/\ cmd.op = "install"
     /\ cmd.name # "*"
     /\ "M_installed" \in out
     /\ pc \in {"idle", "exited"}
     /\ err \notin RecordWriteFailures) =>
        /\ read_record_type = "dict"
        /\ package_name \in DOMAIN read_record
        /\ read_record[package_name] = Entry(package.version, now)
        /\ \A n \in DOMAIN Record0 \ {package_name} :
              n \in DOMAIN read_record /\ read_record[n] = Record0[n]

\* C17 as stated: a listing that succeeded printed one summary per
\* descriptor in catalog order and left the record, the directories and the
\* catalog file as they were.
C17_ListIsPureRead ==
    (cmd.op = "list" /\ pc = "idle" /\ "M_available" \in out) =>
        /\ listing = NamesOf(CatDoc(catFile).packages)
        /\ Snap = op0

\* C17, amended: a listing that succeeded printed one summary per descriptor
\* of the catalog file in catalog order; list_packages never changes the
\* record, an installation directory or a file in one; it leaves the catalog
\* file and its directory alone when the file existed, and otherwise has
\* downloaded the file from the default url first, and nothing else.
C17_ListReadsOrDownloadsCatalog ==
    cmd.op = "list" =>
        /\ Installations(Snap) = Installations(op0)
        /\ op0.catFile # "absent" => (Snap = op0 /\ netLog = <<>>)
        /\ op0.catFile = "absent" => netLog \in {<<>>, <<DefaultURL>>}
        /\ (pc = "idle" /\ "M_available" \in out) =>
              /\ catFile \in {"A", "S"}
              /\ CatalogDir \in dirs
              /\ Len(listing) = Len(CatDoc(catFile).packages)
              /\ \A i \in 1..Len(listing) : listing[i] = CatDoc(catFile).packages[i].name
              /\ op0.catFile = "absent" => netLog = <<DefaultURL>>

C17_Witness ==
    /\ cmd.op = "list"
    /\ pc = "idle"
    /\ "M_available" \in out
    /\ op0.catFile = "absent"
    /\ catFile = "A"
    /\ listing = <<"Foo", "bar", "baz">>

\* C18: from a first run on, with commands that run to their end and no I/O
\* failure, every name with an entry in record.json has its installation
\* directory whenever the program is between commands.
C18_EntryHasDirectory ==
    pc \in {"idle", "exited"} =>
        \A n \in DOMAIN read_record : get_installation_path(n) \in dirs

\* C19: an uninstall changes nothing but the installation directory of the
\* name and the name's record entry: the cached catalog file is what it was,
\* so are the directories and files of every other name, and after an
\* uninstall that ran to its end so are the other entries of record.json.
C19_UninstallFrame ==
    cmd.op = "uninstall" =>
        /\ catFile = op0.catFile
        /\ \A k \in Keys \ {get_installation_path(package_name)} :
              /\ k \in dirs <=> k \in op0.dirs
              /\ art[k] = op0.art[k]
        /\ (pc = "idle" /\ err = "none") =>
              \A n \in DOMAIN Record0 \ {package_name} :
                  n \in DOMAIN read_record /\ read_record[n] = Record0[n]

\* C20: install('*') comes to an end for every catalog and starts the
\* install of one package once for each descriptor of the catalog, never
\* more, a catalog with a descriptor named * included: it does not run into
\* the recursion limit.
C20_WildcardOncePerDescriptor ==
    (cmd.op = "install" /\ cmd.name = "*" /\ catFile \in {"A", "S"}) =>
        /\ calls <= Len(CatDoc(catFile).packages)
        /\ err # "E_install:RecursionError"
        /\ (pc = "idle" /\ err = "none") => calls = Len(CatDoc(catFile).packages)

====
